---- MODULE Spec2Model ----
(***************************************************************************)
(* Model of packages/webgl/src/lib/texture/Sampler.ts: a Sampler is a      *)
(* ContextConsumer whose initializer creates and parameterizes a native    *)
(* WebGLSampler once the rendering context is ready.  getSampler() and     *)
(* delete() are async methods gated on the `ready` promise.                *)
(*                                                                         *)
(* Promises follow the ECMAScript job model: a promise settles once, its   *)
(* reactions are queued as microtasks in registration order, and `await`   *)
(* on a settled promise queues the continuation as a microtask.            *)
(***************************************************************************)
EXTENDS Integers, Sequences, FiniteSets, TLC

NumSamplers == 2
MaxCalls == 2
MaxFailures == 1

Samplers == 1..NumSamplers
CallIds == 1..MaxCalls

VARIABLES
    ctxState,      \* context readiness: "pending" | "ready" | "failed"
    ctxWaiters,    \* reactions registered on the context's readiness, in order
    props,         \* per sampler: the SamplerProps given to the constructor
    initState,     \* per sampler: progress of the initialization routine
    ready,         \* per sampler: state of the `ready` promise
    sampler,       \* per sampler: the private field `sampler` (0 = unset)
    readyWaiters,  \* per sampler: reactions registered on `ready`, in order
    calls,         \* getSampler()/delete() invocations made so far
    microtasks,    \* the microtask (promise job) queue
    glLog,         \* native calls issued on the context, in order
    nextHandle,    \* next WebGLSampler object gl.createSampler hands out
    fmtPos,        \* exhaustiveness test: enum values visited so far
    inferred       \* exhaustiveness test: result of the last inference

samplerVars == <<ctxState, ctxWaiters, props, initState, ready, sampler,
                 readyWaiters, calls, microtasks, glLog, nextHandle>>

formatVars == <<fmtPos, inferred>>

vars == <<samplerVars, formatVars>>

NoHandle == 0

----------------------------------------------------------------------------
(* SamplerProps and the constructor's defaults                             *)

Fields == {"minFilter", "magFilter", "wrapS", "wrapT", "wrapR",
           "minLod", "maxLod", "compareMode", "compareFunc"}

NoProps == [f \in {} |-> "linear"]

\* the defaults of the native sampler object instead of the documented ones
DefaultPropsNative ==
    [minFilter   |-> "nearestMipmapLinear",
     magFilter   |-> "linear",
     wrapS       |-> "repeat",
     wrapT       |-> "repeat",
     wrapR       |-> "repeat",
     minLod      |-> -1000,
     maxLod      |-> 1000,
     compareMode |-> "none",
     compareFunc |-> "lessOrEqual"]

DefaultProps ==
    [minFilter   |-> "linear",
     magFilter   |-> "linear",
     wrapS       |-> "clampToEdge",
     wrapT       |-> "clampToEdge",
     wrapR       |-> "clampToEdge",
     minLod      |-> -1000,
     maxLod      |-> 1000,
     compareMode |-> "none",
     compareFunc |-> "lessOrEqual"]

\* a props object that gives some of the fields
SomeProps ==
    [minFilter |-> "nearest", wrapT |-> "repeat", maxLod |-> 8,
     compareMode |-> "compareRefToTexture"]

\* a props object that gives every field, none with its default value
FullProps ==
    [minFilter   |-> "nearestMipmapLinear",
     magFilter   |-> "nearest",
     wrapS       |-> "repeat",
     wrapT       |-> "mirroredRepeat",
     wrapR       |-> "repeat",
     minLod      |-> 0,
     maxLod      |-> 12,
     compareMode |-> "compareRefToTexture",
     compareFunc |-> "greater"]

\* the props objects that give any subset of the fields
AnyProps == {[f \in given |-> FullProps[f]] : given \in SUBSET Fields}

\* the argument sampler s is constructed with: odd-numbered samplers get
\* no props, even-numbered ones SomeProps
GivenProps(s) == IF s % 2 = 1 THEN NoProps ELSE SomeProps

\* destructuring with defaults: a given field keeps its value, an omitted
\* one takes the default
WithDefaults(p) ==
    [f \in Fields |-> IF f \in DOMAIN p THEN p[f] ELSE DefaultProps[f]]

----------------------------------------------------------------------------
(* The initializer passed to super()                                       *)

GlCall(fn, s, h, pname, val) ==
    [fn |-> fn, inst |-> s, h |-> h, pname |-> pname, val |-> val, ok |-> TRUE]

\* the initializer without the call for the comparison function
ParameterCallsShort(s, h, cfg) ==
    << GlCall("samplerParameteri", s, h, "TEXTURE_MIN_FILTER", cfg.minFilter),
       GlCall("samplerParameteri", s, h, "TEXTURE_MAG_FILTER", cfg.magFilter),
       GlCall("samplerParameteri", s, h, "TEXTURE_WRAP_S", cfg.wrapS),
       GlCall("samplerParameteri", s, h, "TEXTURE_WRAP_T", cfg.wrapT),
       GlCall("samplerParameteri", s, h, "TEXTURE_WRAP_R", cfg.wrapR),
       GlCall("samplerParameterf", s, h, "TEXTURE_MIN_LOD", cfg.minLod),
       GlCall("samplerParameterf", s, h, "TEXTURE_MAX_LOD", cfg.maxLod),
       GlCall("samplerParameteri", s, h, "TEXTURE_COMPARE_MODE", cfg.compareMode) >>

\* the parameter-set calls of the initializer on the created sampler h
ParameterCalls(s, h, cfg) ==
    << GlCall("samplerParameteri", s, h, "TEXTURE_MIN_FILTER", cfg.minFilter),
       GlCall("samplerParameteri", s, h, "TEXTURE_MAG_FILTER", cfg.magFilter),
       GlCall("samplerParameteri", s, h, "TEXTURE_WRAP_S", cfg.wrapS),
       GlCall("samplerParameteri", s, h, "TEXTURE_WRAP_T", cfg.wrapT),
       GlCall("samplerParameteri", s, h, "TEXTURE_WRAP_R", cfg.wrapR),
       GlCall("samplerParameterf", s, h, "TEXTURE_MIN_LOD", cfg.minLod),
       GlCall("samplerParameterf", s, h, "TEXTURE_MAX_LOD", cfg.maxLod),
       GlCall("samplerParameteri", s, h, "TEXTURE_COMPARE_MODE", cfg.compareMode),
       GlCall("samplerParameteri", s, h, "TEXTURE_COMPARE_FUNC", cfg.compareFunc) >>

\* the initializer creates the sampler twice
InitializerCallsTwice(s, h, cfg) ==
    << GlCall("createSampler", s, h, "", 0),
       GlCall("createSampler", s, h, "", 0) >> \o ParameterCalls(s, h, cfg)

\* the native calls of one run of the initializer of sampler s, in program
\* order, h being the object gl.createSampler returns
InitializerCalls(s, h, cfg) ==
    << GlCall("createSampler", s, h, "", 0) >> \o ParameterCalls(s, h, cfg)

NumNativeCalls == Len(InitializerCalls(1, 1, DefaultProps))

\* failAt = 0: no native call throws; failAt = k: the k-th call throws and
\* the calls after it are not issued
IssuedCalls(s, h, cfg, failAt) ==
    LET all == InitializerCalls(s, h, cfg) IN
    IF failAt = 0 THEN all
    ELSE [i \in 1..failAt |->
            IF i < failAt THEN all[i]
            ELSE [all[i] EXCEPT !.ok = FALSE,
                                !.h = IF i = 1 THEN NoHandle ELSE h]]

\* native calls that threw so far
Failed(log) == {i \in DOMAIN log : ~log[i].ok}

\* the initializer never assigns the field
StoredSamplerForgotten(old, h, failAt) == old

\* the initializer assigning the field right after gl.createSampler
StoredSamplerEarly(old, h, failAt) == IF failAt = 1 THEN old ELSE h

\* value of `this.sampler` after a run of the initializer
StoredSampler(old, h, failAt) == IF failAt = 0 THEN h ELSE old

----------------------------------------------------------------------------
(* Promise plumbing                                                        *)

InitTask(s) == [kind |-> "init", id |-> s]
SettleTask(s) == [kind |-> "settle", id |-> s]
CallTask(c) == [kind |-> "call", id |-> c]
CallerTask(c) == [kind |-> "caller", id |-> c]

\* the reactions of a settling promise become microtasks, oldest first
Reactions(waiters, kind) ==
    [i \in 1..Len(waiters) |-> [kind |-> kind, id |-> waiters[i]]]

Init ==
    /\ ctxState = "pending"
    /\ ctxWaiters = <<>>
    /\ props = [s \in Samplers |-> NoProps]
    /\ initState = [s \in Samplers |-> "none"]
    /\ ready = [s \in Samplers |-> "none"]
    /\ sampler = [s \in Samplers |-> NoHandle]
    /\ readyWaiters = [s \in Samplers |-> <<>>]
    /\ calls = <<>>
    /\ microtasks = <<>>
    /\ glLog = <<>>
    /\ nextHandle = 1
    /\ fmtPos = 0
    /\ inferred = "none"

----------------------------------------------------------------------------
(* The rendering context (external collaborator)                           *)

\* the context's readiness settles, once, with success or failure
ContextSettle(outcome) ==
    /\ ctxState = "pending"
    /\ ctxState' = outcome
    /\ microtasks' = microtasks \o Reactions(ctxWaiters, "init")
    /\ ctxWaiters' = <<>>
    /\ UNCHANGED formatVars
    /\ UNCHANGED <<props, initState, ready, sampler, readyWaiters, calls,
                   glLog, nextHandle>>

----------------------------------------------------------------------------
(* new Sampler( props )                                                    *)

\* the constructor creating the native sampler itself, before handing the
\* initializer to the base
ConstructEager(s, p) ==
    /\ initState[s] = "none"
    /\ \A t \in Samplers : t < s => initState[t] # "none"
    /\ props' = [props EXCEPT ![s] = p]
    /\ initState' = [initState EXCEPT ![s] = "awaitContext"]
    /\ ready' = [ready EXCEPT ![s] = "pending"]
    /\ glLog' = Append(glLog, [fn |-> "createSampler", inst |-> s,
                               h |-> nextHandle, pname |-> "", val |-> 0,
                               ok |-> TRUE])
    /\ IF ctxState = "pending"
         THEN /\ ctxWaiters' = Append(ctxWaiters, s)
              /\ UNCHANGED microtasks
         ELSE /\ microtasks' = Append(microtasks, [kind |-> "init", id |-> s])
              /\ UNCHANGED ctxWaiters
    /\ UNCHANGED formatVars
    /\ UNCHANGED <<ctxState, sampler, readyWaiters, calls, nextHandle>>

\* The constructor captures the props and hands the initializer to the
\* ContextConsumer base, which starts the initialization routine: it runs
\* up to its await of the context's readiness.
Construct(s, p) ==
    /\ initState[s] = "none"
    /\ \A t \in Samplers : t < s => initState[t] # "none"
    /\ props' = [props EXCEPT ![s] = p]
    /\ initState' = [initState EXCEPT ![s] = "awaitContext"]
    /\ ready' = [ready EXCEPT ![s] = "pending"]
    /\ IF ctxState = "pending"
         THEN /\ ctxWaiters' = Append(ctxWaiters, s)
              /\ UNCHANGED microtasks
         ELSE /\ microtasks' = Append(microtasks, InitTask(s))
              /\ UNCHANGED ctxWaiters
    /\ UNCHANGED formatVars
    /\ UNCHANGED <<ctxState, sampler, readyWaiters, calls, glLog, nextHandle>>

\* `ready` settles: its state becomes final and its reactions are queued
SettleReadyTo(s, outcome, rest) ==
    /\ ready' = [ready EXCEPT ![s] = outcome]
    /\ microtasks' = rest \o Reactions(readyWaiters[s], "call")
    /\ readyWaiters' = [readyWaiters EXCEPT ![s] = <<>>]

\* the routine resumes after the context's readiness was rejected: it
\* throws without calling the initializer, and `ready` is rejected
ResumeInitRejected(s) ==
    /\ microtasks # <<>>
    /\ Head(microtasks) = InitTask(s)
    /\ ctxState = "failed"
    /\ initState' = [initState EXCEPT ![s] = "threw"]
    /\ SettleReadyTo(s, "failed", Tail(microtasks))
    /\ UNCHANGED formatVars
    /\ UNCHANGED <<ctxState, ctxWaiters, props, sampler, calls, glLog,
                   nextHandle>>

\* the routine resumes after the context became ready and calls the
\* initializer, which runs to its end (failAt = 0) or to the first native
\* call that throws (the failAt-th); the routine then awaits the promise
\* the initializer returned
ResumeInitRun(s, failAt) ==
    /\ microtasks # <<>>
    /\ Head(microtasks) = InitTask(s)
    /\ ctxState = "ready"
    /\ failAt # 0 => Cardinality(Failed(glLog)) < MaxFailures
    /\ glLog' = glLog \o IssuedCalls(s, nextHandle, WithDefaults(props[s]),
                                     failAt)
    /\ sampler' = [sampler EXCEPT
                     ![s] = StoredSampler(sampler[s], nextHandle, failAt)]
    /\ nextHandle' = IF failAt = 1 THEN nextHandle ELSE nextHandle + 1
    /\ initState' = [initState EXCEPT
                       ![s] = IF failAt = 0 THEN "returned" ELSE "threw"]
    /\ microtasks' = Append(Tail(microtasks), SettleTask(s))
    /\ UNCHANGED formatVars
    /\ UNCHANGED <<ctxState, ctxWaiters, props, ready, readyWaiters, calls>>

\* the routine resumes after the initializer's promise settled, which
\* settles `ready` the same way
SettleReady(s) ==
    /\ microtasks # <<>>
    /\ Head(microtasks) = SettleTask(s)
    /\ SettleReadyTo(s, IF initState[s] = "returned" THEN "ready" ELSE "failed",
                     Tail(microtasks))
    /\ UNCHANGED formatVars
    /\ UNCHANGED <<ctxState, ctxWaiters, props, initState, sampler, calls,
                   glLog, nextHandle>>

----------------------------------------------------------------------------
(* getSampler() and delete()                                               *)

\* getSampler() without the await: as if awaiting a resolved promise
GetSamplerNoAwait(s) == "ready"

\* getSampler() catching the rejection of `ready`
GetSamplerSwallow(s) == IF ready[s] = "failed" THEN "ready" ELSE ready[s]

\* the promise getSampler() awaits before reading the field
GetSamplerAwaited(s) == ready[s]

\* delete() without the await: as if awaiting a resolved promise
DeleteNoAwait(s) == "ready"

\* delete() catching the rejection of `ready`
DeleteSwallow(s) == IF ready[s] = "failed" THEN "ready" ELSE ready[s]

\* the promise delete() awaits before reading the field
DeleteAwaited(s) == ready[s]

Awaited(op, s) ==
    IF op = "getSampler" THEN GetSamplerAwaited(s) ELSE DeleteAwaited(s)

\* the record of a method call: its target, the state of `ready` when it
\* was made, its progress and the value its promise resolved with
NewCall(op, s, st, chained) ==
    [op |-> op, s |-> s, at |-> ready[s], st |-> st, val |-> NoHandle,
     chained |-> chained, got |-> FALSE]

\* settling the promise a method returned queues the reaction its caller
\* chained on it, if any
CallerReaction(c) == IF calls[c].chained THEN <<CallerTask(c)>> ELSE <<>>

\* a method call runs up to its await: the continuation is registered on
\* the pending promise, or queued at once when the promise is settled
Invoke(op, s, chained) ==
    /\ Len(calls) < MaxCalls
    /\ initState[s] # "none"
    /\ LET c == Len(calls) + 1 IN
       IF Awaited(op, s) = "pending"
         THEN /\ readyWaiters' = [readyWaiters EXCEPT ![s] = Append(@, c)]
              /\ calls' = Append(calls, NewCall(op, s, "awaiting", chained))
              /\ UNCHANGED microtasks
         ELSE /\ microtasks' = Append(microtasks, CallTask(c))
              /\ calls' = Append(calls, NewCall(op, s, "queued", chained))
              /\ UNCHANGED readyWaiters
    /\ UNCHANGED formatVars
    /\ UNCHANGED <<ctxState, ctxWaiters, props, initState, ready, sampler,
                   glLog, nextHandle>>

GetSampler(s, chained) == Invoke("getSampler", s, chained)

Delete(s, chained) == Invoke("delete", s, chained)

\* getSampler() handing the handle over: the field is cleared on return
ResumeGetSamplerTake(c) ==
    /\ c \in DOMAIN calls
    /\ microtasks # <<>>
    /\ Head(microtasks) = [kind |-> "call", id |-> c]
    /\ calls[c].op = "getSampler"
    /\ LET s == calls[c].s IN
       IF ready[s] = "failed"
         THEN /\ calls' = [calls EXCEPT ![c].st = "rejected"]
              /\ UNCHANGED sampler
         ELSE /\ calls' = [calls EXCEPT ![c].st = "resolved",
                                        ![c].val = sampler[s]]
              /\ sampler' = [sampler EXCEPT ![s] = NoHandle]
    /\ microtasks' = Tail(microtasks) \o CallerReaction(c)
    /\ UNCHANGED formatVars
    /\ UNCHANGED <<ctxState, ctxWaiters, props, initState, ready,
                   readyWaiters, glLog, nextHandle>>

\* getSampler() resumes: a rejected `ready` rejects the call, otherwise the
\* call resolves with the field's value
ResumeGetSampler(c) ==
    /\ c \in DOMAIN calls
    /\ microtasks # <<>>
    /\ Head(microtasks) = CallTask(c)
    /\ calls[c].op = "getSampler"
    /\ LET s == calls[c].s IN
       calls' = [calls EXCEPT ![c] =
                   IF GetSamplerAwaited(s) = "failed"
                     THEN [@ EXCEPT !.st = "rejected"]
                     ELSE [@ EXCEPT !.st = "resolved", !.val = sampler[s]]]
    /\ microtasks' = Tail(microtasks) \o CallerReaction(c)
    /\ UNCHANGED formatVars
    /\ UNCHANGED <<ctxState, ctxWaiters, props, initState, ready, sampler,
                   readyWaiters, glLog, nextHandle>>

\* delete() replacing `ready` by a fresh pending promise after the release
ResumeDeleteRearm(c) ==
    /\ c \in DOMAIN calls
    /\ microtasks # <<>>
    /\ Head(microtasks) = [kind |-> "call", id |-> c]
    /\ calls[c].op = "delete"
    /\ LET s == calls[c].s IN
       IF ready[s] = "failed"
         THEN /\ calls' = [calls EXCEPT ![c].st = "rejected"]
              /\ UNCHANGED <<glLog, ready>>
         ELSE /\ calls' = [calls EXCEPT ![c].st = "resolved"]
              /\ glLog' = Append(glLog, [fn |-> "deleteSampler", inst |-> s,
                                         h |-> sampler[s], pname |-> "",
                                         val |-> 0, ok |-> TRUE])
              /\ ready' = [ready EXCEPT ![s] = "pending"]
    /\ microtasks' = Tail(microtasks) \o CallerReaction(c)
    /\ UNCHANGED formatVars
    /\ UNCHANGED <<ctxState, ctxWaiters, props, initState, sampler,
                   readyWaiters, nextHandle>>

\* delete() releasing the sampler created last on the context, as if the
\* handle were kept in a variable shared by all instances
ResumeDeleteShared(c) ==
    /\ c \in DOMAIN calls
    /\ microtasks # <<>>
    /\ Head(microtasks) = [kind |-> "call", id |-> c]
    /\ calls[c].op = "delete"
    /\ LET s == calls[c].s IN
       IF ready[s] = "failed"
         THEN /\ calls' = [calls EXCEPT ![c].st = "rejected"]
              /\ UNCHANGED glLog
         ELSE /\ calls' = [calls EXCEPT ![c].st = "resolved"]
              /\ glLog' = Append(glLog, [fn |-> "deleteSampler", inst |-> s,
                                         h |-> nextHandle - 1, pname |-> "",
                                         val |-> 0, ok |-> TRUE])
    /\ microtasks' = Tail(microtasks) \o CallerReaction(c)
    /\ UNCHANGED formatVars
    /\ UNCHANGED <<ctxState, ctxWaiters, props, initState, ready, sampler,
                   readyWaiters, nextHandle>>

\* delete() clearing the field after the release
ResumeDeleteClear(c) ==
    /\ c \in DOMAIN calls
    /\ microtasks # <<>>
    /\ Head(microtasks) = [kind |-> "call", id |-> c]
    /\ calls[c].op = "delete"
    /\ LET s == calls[c].s IN
       IF ready[s] = "failed"
         THEN /\ calls' = [calls EXCEPT ![c].st = "rejected"]
              /\ UNCHANGED <<glLog, sampler>>
         ELSE /\ calls' = [calls EXCEPT ![c].st = "resolved"]
              /\ glLog' = Append(glLog, [fn |-> "deleteSampler", inst |-> s,
                                         h |-> sampler[s], pname |-> "",
                                         val |-> 0, ok |-> TRUE])
              /\ sampler' = [sampler EXCEPT ![s] = NoHandle]
    /\ microtasks' = Tail(microtasks) \o CallerReaction(c)
    /\ UNCHANGED formatVars
    /\ UNCHANGED <<ctxState, ctxWaiters, props, initState, ready,
                   readyWaiters, nextHandle>>

\* delete() resumes: a rejected `ready` rejects the call, otherwise the
\* field's value is passed to gl.deleteSampler
ResumeDelete(c) ==
    /\ c \in DOMAIN calls
    /\ microtasks # <<>>
    /\ Head(microtasks) = CallTask(c)
    /\ calls[c].op = "delete"
    /\ LET s == calls[c].s IN
       IF DeleteAwaited(s) = "failed"
         THEN /\ calls' = [calls EXCEPT ![c].st = "rejected"]
              /\ UNCHANGED glLog
         ELSE /\ calls' = [calls EXCEPT ![c].st = "resolved"]
              /\ glLog' = Append(glLog,
                                 GlCall("deleteSampler", s, sampler[s], "", 0))
    /\ microtasks' = Tail(microtasks) \o CallerReaction(c)
    /\ UNCHANGED formatVars
    /\ UNCHANGED <<ctxState, ctxWaiters, props, initState, ready, sampler,
                   readyWaiters, nextHandle>>

\* the code that called getSampler() or delete() and awaits the returned
\* promise resumes with the outcome: its reaction was queued when the
\* method's promise settled, the earliest a caller can run
CallerResumes(c) ==
    /\ c \in DOMAIN calls
    /\ microtasks # <<>>
    /\ Head(microtasks) = CallerTask(c)
    /\ calls' = [calls EXCEPT ![c].got = TRUE]
    /\ microtasks' = Tail(microtasks)
    /\ UNCHANGED formatVars
    /\ UNCHANGED <<ctxState, ctxWaiters, props, initState, ready, sampler,
                   readyWaiters, glLog, nextHandle>>

----------------------------------------------------------------------------

\* which native call of an initializer run throws: none (0),
\* gl.createSampler, the first or the last parameter-set call
FailPoints == {0, 1, 2, NumNativeCalls}

Next ==
    \/ \E o \in {"ready", "failed"} : ContextSettle(o)
    \/ \E s \in Samplers : Construct(s, GivenProps(s))
    \/ \E s \in Samplers : ResumeInitRejected(s)
    \/ \E s \in Samplers, failAt \in FailPoints : ResumeInitRun(s, failAt)
    \/ \E s \in Samplers : SettleReady(s)
    \/ \E s \in Samplers : GetSampler(s, FALSE)
    \/ \E s \in Samplers : Delete(s, FALSE)
    \/ \E c \in CallIds : ResumeGetSampler(c)
    \/ \E c \in CallIds : ResumeDelete(c)

Spec == Init /\ [][Next]_vars

\* the runs in which no native call throws
LiveNext ==
    \/ \E o \in {"ready", "failed"} : ContextSettle(o)
    \/ \E s \in Samplers : Construct(s, GivenProps(s))
    \/ \E s \in Samplers : ResumeInitRejected(s)
    \/ \E s \in Samplers : ResumeInitRun(s, 0)
    \/ \E s \in Samplers : SettleReady(s)
    \/ \E s \in Samplers : GetSampler(s, FALSE)
    \/ \E s \in Samplers : Delete(s, FALSE)
    \/ \E c \in CallIds : ResumeGetSampler(c)
    \/ \E c \in CallIds : ResumeDelete(c)

\* the event loop runs the microtask at the head of the queue
RunMicrotask ==
    \/ \E s \in Samplers : ResumeInitRejected(s)
    \/ \E s \in Samplers : ResumeInitRun(s, 0)
    \/ \E s \in Samplers : SettleReady(s)
    \/ \E c \in CallIds : ResumeGetSampler(c)
    \/ \E c \in CallIds : ResumeDelete(c)

\* no native call throws and the event loop never stops with a microtask
\* queued; whether and when the context settles, and what callers do, is
\* left open
LiveSpec == Init /\ [][LiveNext]_vars /\ WF_vars(RunMicrotask)

\* the runs in which no native call throws and every caller chains a
\* continuation on the promise it is returned, at the call
CallerNext ==
    \/ \E o \in {"ready", "failed"} : ContextSettle(o)
    \/ \E s \in Samplers : Construct(s, GivenProps(s))
    \/ \E s \in Samplers : ResumeInitRejected(s)
    \/ \E s \in Samplers : ResumeInitRun(s, 0)
    \/ \E s \in Samplers : SettleReady(s)
    \/ \E s \in Samplers : GetSampler(s, TRUE)
    \/ \E s \in Samplers : Delete(s, TRUE)
    \/ \E c \in CallIds : ResumeGetSampler(c)
    \/ \E c \in CallIds : ResumeDelete(c)
    \/ \E c \in CallIds : CallerResumes(c)

CallerSpec == Init /\ [][CallerNext]_vars

----------------------------------------------------------------------------
(* TextureStorageFormat and inferFormatFromStorageFormat                   *)

\* the members of TextureFormat
TextureFormats ==
    {"alpha", "luminance", "luminanceAlpha", "red", "redInteger", "rg",
     "rgInteger", "rgb", "rgbInteger", "rgba", "rgbaInteger"}

Components == <<"r", "rg", "rgb", "rgba">>

\* the bit depth and suffix of the regular families: byte and normalized
\* signed, float at two depths, signed and unsigned integer at three
Layouts ==
    << <<8, "">>, <<8, "snorm">>, <<16, "f">>, <<32, "f">>,
       <<8, "i">>, <<8, "ui">>, <<16, "i">>, <<16, "ui">>,
       <<32, "i">>, <<32, "ui">> >>

\* the irregular members
Remaining ==
    <<"alpha", "luminance", "luminanceAlpha", "rgb565", "rgba4", "rgb5a1",
      "rgb10a2", "rgb10a2ui", "srgb8", "srgb8alpha8", "r11fg11fb10f",
      "rgb9e5">>

Regular(comp, layout) ==
    [name |-> "", comp |-> comp, bits |-> layout[1], suffix |-> layout[2]]

Irregular(name) == [name |-> name, comp |-> "", bits |-> 0, suffix |-> ""]

\* the members of TextureStorageFormat, in declaration order
StorageFormats ==
    [i \in 1..(Len(Components) * Len(Layouts)) |->
        Regular(Components[((i - 1) \div Len(Layouts)) + 1],
                Layouts[((i - 1) % Len(Layouts)) + 1])]
    \o [i \in 1..Len(Remaining) |-> Irregular(Remaining[i])]

\* Object.values of the compiled enum: the member names of the reverse
\* lookups first, then the members' numeric values
EnumValues ==
    [i \in 1..Len(StorageFormats) |->
        [isString |-> TRUE, member |-> StorageFormats[i]]]
    \o [i \in 1..Len(StorageFormats) |->
        [isString |-> FALSE, member |-> StorageFormats[i]]]

\* the generative rule of the regular families: component count to base
\* format
BaseFormat == [r |-> "red", rg |-> "rg", rgb |-> "rgb", rgba |-> "rgba"]

\* a lookup table that lacks the shared-exponent format
IrregularFormatsShort ==
    [alpha          |-> "alpha",
     luminance      |-> "luminance",
     luminanceAlpha |-> "luminanceAlpha",
     rgb565         |-> "rgb",
     rgba4          |-> "rgba",
     rgb5a1         |-> "rgba",
     rgb10a2        |-> "rgba",
     rgb10a2ui      |-> "rgba",
     srgb8          |-> "rgb",
     srgb8alpha8    |-> "rgba",
     r11fg11fb10f   |-> "rgb"]

\* the explicit lookup table of the irregular tail
IrregularFormats ==
    [alpha          |-> "alpha",
     luminance      |-> "luminance",
     luminanceAlpha |-> "luminanceAlpha",
     rgb565         |-> "rgb",
     rgba4          |-> "rgba",
     rgb5a1         |-> "rgba",
     rgb10a2        |-> "rgba",
     rgb10a2ui      |-> "rgba",
     srgb8          |-> "rgb",
     srgb8alpha8    |-> "rgba",
     r11fg11fb10f   |-> "rgb",
     rgb9e5         |-> "rgb"]

\* inferFormatFromStorageFormat: "undefined" stands for no result
InferFormat(m) ==
    IF m.name # ""
      THEN IF m.name \in DOMAIN IrregularFormats
             THEN IrregularFormats[m.name]
             ELSE "undefined"
      ELSE IF m.comp \in DOMAIN BaseFormat
             THEN BaseFormat[m.comp]
             ELSE "undefined"

\* test 'should be exhaustive': one iteration of the forEach over
\* Object.values( TextureStorageFormat ); strings are skipped, every other
\* value is passed to the inference
ExhaustiveTestStep ==
    /\ fmtPos < Len(EnumValues)
    /\ fmtPos' = fmtPos + 1
    /\ inferred' = IF EnumValues[fmtPos + 1].isString
                     THEN inferred
                     ELSE InferFormat(EnumValues[fmtPos + 1].member)
    /\ UNCHANGED samplerVars

FormatSpec == Init /\ [][ExhaustiveTestStep]_vars

\* the runs that construct the first sampler with any subset of the
\* fields given, in which no native call throws and no method is called
ConfigNext ==
    \/ \E o \in {"ready", "failed"} : ContextSettle(o)
    \/ \E p \in AnyProps : Construct(1, p)
    \/ \E s \in Samplers \ {1} : Construct(s, GivenProps(s))
    \/ \E s \in Samplers : ResumeInitRejected(s)
    \/ \E s \in Samplers : ResumeInitRun(s, 0)
    \/ \E s \in Samplers : SettleReady(s)

ConfigSpec == Init /\ [][ConfigNext]_vars

----------------------------------------------------------------------------
(* Vocabulary of the properties                                            *)

Constructed == {s \in Samplers : initState[s] # "none"}

\* positions in the native call stream
CreateCalls(s) ==
    {i \in DOMAIN glLog : glLog[i].inst = s /\ glLog[i].fn = "createSampler"}

InitCalls(s) ==
    {i \in DOMAIN glLog : glLog[i].inst = s /\ glLog[i].fn # "deleteSampler"}

DeleteCalls(s) ==
    {i \in DOMAIN glLog : glLog[i].inst = s /\ glLog[i].fn = "deleteSampler"}

NativeFailure(s) == \E i \in InitCalls(s) : ~glLog[i].ok

CallsOn(s) == {c \in DOMAIN calls : calls[c].s = s}

Completed(c) == calls[c].st \in {"resolved", "rejected"}

\* the object gl.createSampler returned to the initializer of s, if any
CreatedHandles(s) == {glLog[i].h : i \in {j \in CreateCalls(s) : glLog[j].ok}}

----------------------------------------------------------------------------
\* C1: for every Sampler, whatever getSampler() and delete() calls are made
\* and however they interleave, gl.createSampler is issued at most once for
\* the instance and no native call of the initializer is issued twice.
InitializerAtMostOnce ==
    \A s \in Samplers :
        /\ Cardinality(CreateCalls(s)) <= 1
        /\ \A i, j \in InitCalls(s) :
              (glLog[i].fn = glLog[j].fn /\ glLog[i].pname = glLog[j].pname)
                  => i = j

\* a sampler created once although a getSampler() and a delete() on it, one
\* of them made while `ready` was pending, have both completed
InitializerAtMostOnceWitness ==
    \E s \in Samplers :
        /\ Cardinality(CreateCalls(s)) = 1
        /\ \E c, d \in CallsOn(s) :
              /\ calls[c].op = "getSampler" /\ calls[d].op = "delete"
              /\ Completed(c) /\ Completed(d)
              /\ "pending" \in {calls[c].at, calls[d].at}

\* C2: every step that issues a native call starts in a state where the
\* context's readiness has already resolved successfully; no native call
\* is in the stream while the context is pending.
ContextReadyBeforeNativeCalls ==
    /\ [](glLog # <<>> => ctxState = "ready")
    /\ [][glLog' # glLog => ctxState = "ready"]_vars

\* the context is ready and two samplers have run their initializers to
\* the end
ContextReadyBeforeNativeCallsWitness ==
    /\ ctxState = "ready"
    /\ \E s, t \in Samplers :
          /\ s # t
          /\ Cardinality(InitCalls(s)) = NumNativeCalls
          /\ Cardinality(InitCalls(t)) = NumNativeCalls

\* C3: a getSampler() call that resolved returns the handle the instance's
\* initializer got from gl.createSampler and stored, never the unset field;
\* the initializer had completed by then.
GetSamplerReturnsStoredHandle ==
    \A c \in DOMAIN calls :
        (calls[c].op = "getSampler" /\ calls[c].st = "resolved") =>
            /\ calls[c].val # NoHandle
            /\ calls[c].val = sampler[calls[c].s]
            /\ calls[c].val \in CreatedHandles(calls[c].s)
            /\ initState[calls[c].s] = "returned"

\* a getSampler() called while `ready` was pending, the first call on its
\* sampler, has resolved
GetSamplerReturnsStoredHandleWitness ==
    \E c \in DOMAIN calls :
        /\ calls[c].op = "getSampler" /\ calls[c].st = "resolved"
        /\ calls[c].at = "pending"
        /\ \A d \in DOMAIN calls : d < c => calls[d].s # calls[c].s

\* C4: every gl.deleteSampler in the call stream comes after all the native
\* calls of the instance's initializer, all successful, and its argument is
\* the stored handle, never the unset field.
DeleteAfterInitialization ==
    \A i \in DOMAIN glLog :
        glLog[i].fn = "deleteSampler" =>
            LET s == glLog[i].inst IN
            /\ glLog[i].h # NoHandle
            /\ glLog[i].h = sampler[s]
            /\ glLog[i].h \in CreatedHandles(s)
            /\ Cardinality({j \in InitCalls(s) : j < i /\ glLog[j].ok})
                   = NumNativeCalls

\* delete() called while `ready` was pending and before any getSampler() on
\* the instance has issued gl.deleteSampler
DeleteAfterInitializationWitness ==
    \E c \in DOMAIN calls :
        /\ calls[c].op = "delete" /\ calls[c].st = "resolved"
        /\ calls[c].at = "pending"
        /\ \A d \in DOMAIN calls : d < c => calls[d].s # calls[c].s
        /\ DeleteCalls(calls[c].s) # {}

\* C5: once the context's readiness has resolved to failure, no native call
\* is ever issued, no sampler becomes ready or stores a handle, no
\* getSampler()/delete() resolves, and when the microtask queue has drained
\* every constructed sampler's readiness is failed and every call rejected.
ContextFailurePropagates ==
    ctxState = "failed" =>
        /\ glLog = <<>>
        /\ \A s \in Constructed :
              /\ ready[s] \in {"pending", "failed"}
              /\ sampler[s] = NoHandle
        /\ \A c \in DOMAIN calls : calls[c].st # "resolved"
        /\ microtasks = <<>> =>
              /\ \A s \in Constructed : ready[s] = "failed"
              /\ \A c \in DOMAIN calls : calls[c].st = "rejected"

\* the context failed; every sampler is failed, and a getSampler() and a
\* delete(), one made while `ready` was pending and one after it failed,
\* were both rejected
ContextFailurePropagatesWitness ==
    /\ ctxState = "failed"
    /\ \A s \in Samplers : ready[s] = "failed"
    /\ \E c, d \in DOMAIN calls :
          /\ calls[c].op = "getSampler" /\ calls[d].op = "delete"
          /\ calls[c].st = "rejected" /\ calls[d].st = "rejected"
          /\ {calls[c].at, calls[d].at} = {"pending", "failed"}

\* C6: after a native call of the initializer of s has failed, `ready` of s
\* never becomes ready, no call on s resolves, gl.deleteSampler is never
\* issued for s, the initializer issues nothing more (no retry), and when
\* the microtask queue has drained `ready` is failed and every call on s,
\* made before or after the failure, is rejected.
InitializerFailureIsFinal ==
    \A s \in Samplers :
        NativeFailure(s) =>
            /\ ready[s] \in {"pending", "failed"}
            /\ \A c \in CallsOn(s) : calls[c].st # "resolved"
            /\ DeleteCalls(s) = {}
            /\ Cardinality(CreateCalls(s)) = 1
            /\ \A i, j \in InitCalls(s) : ~glLog[i].ok => j <= i
            /\ microtasks = <<>> =>
                  /\ ready[s] = "failed"
                  /\ \A c \in CallsOn(s) : calls[c].st = "rejected"

\* a parameter-set call failed; a getSampler() and a delete() on the
\* sampler, one made before and one after `ready` failed, were rejected
InitializerFailureIsFinalWitness ==
    \E s \in Samplers :
        /\ \E i \in InitCalls(s) : ~glLog[i].ok /\ glLog[i].fn # "createSampler"
        /\ \E c, d \in CallsOn(s) :
              /\ calls[c].op = "getSampler" /\ calls[d].op = "delete"
              /\ calls[c].st = "rejected" /\ calls[d].st = "rejected"
              /\ {calls[c].at, calls[d].at} = {"pending", "failed"}

\* C7: the readiness of a constructed sampler is pending, ready or failed;
\* it is pending at construction and its only changes are pending to ready
\* and pending to failed, so a settled readiness never changes again.
ReadinessSettlesOnce ==
    /\ [](\A s \in Samplers :
            IF s \in Constructed
              THEN ready[s] \in {"pending", "ready", "failed"}
              ELSE ready[s] = "none")
    /\ [][\A s \in Samplers :
            ready'[s] # ready[s] =>
                \/ ready[s] = "none" /\ ready'[s] = "pending"
                \/ ready[s] = "pending" /\ ready'[s] \in {"ready", "failed"}]_vars

\* one sampler is ready and has been deleted after a getSampler() on it,
\* another has failed
ReadinessSettlesOnceWitness ==
    \E s, t \in Samplers :
        /\ ready[s] = "ready" /\ ready[t] = "failed"
        /\ DeleteCalls(s) # {}
        /\ \E c \in CallsOn(s) :
              calls[c].op = "getSampler" /\ calls[c].st = "resolved"

\* C8: the completed calls on one sampler all observed the outcome `ready`
\* has: all resolved when it is ready, all rejected when it is failed; two
\* completed getSampler() calls on it return the same handle.
ReadinessIdempotent ==
    \A c \in DOMAIN calls :
        Completed(c) =>
            /\ calls[c].st = "resolved" <=> ready[calls[c].s] = "ready"
            /\ calls[c].st = "rejected" <=> ready[calls[c].s] = "failed"
            /\ \A d \in CallsOn(calls[c].s) :
                  Completed(d) =>
                      /\ calls[d].st = calls[c].st
                      /\ calls[d].op = calls[c].op => calls[d].val = calls[c].val

\* two getSampler() calls on one sampler, one made while `ready` was
\* pending and one after it resolved, have both returned
ReadinessIdempotentWitness ==
    \E c, d \in DOMAIN calls :
        /\ c # d /\ calls[c].s = calls[d].s
        /\ calls[c].op = "getSampler" /\ calls[d].op = "getSampler"
        /\ calls[c].at = "pending" /\ calls[d].at = "ready"
        /\ calls[c].st = "resolved" /\ calls[d].st = "resolved"

\* C9: as long as the context's readiness has not settled, every
\* constructed sampler is pending with its routine waiting for the context,
\* no native call has been issued, no continuation is queued and every
\* getSampler()/delete() call is still waiting (neither resolved nor
\* rejected).
PendingWhileContextPending ==
    ctxState = "pending" =>
        /\ glLog = <<>>
        /\ microtasks = <<>>
        /\ \A s \in Constructed :
              /\ ready[s] = "pending"
              /\ initState[s] = "awaitContext"
              /\ sampler[s] = NoHandle
        /\ \A c \in DOMAIN calls : calls[c].st = "awaiting"

\* the context is pending, every sampler is constructed and a getSampler()
\* and a delete() have been called
PendingWhileContextPendingWitness ==
    /\ ctxState = "pending"
    /\ Constructed = Samplers
    /\ \E c, d \in DOMAIN calls :
          calls[c].op = "getSampler" /\ calls[d].op = "delete"

\* C10: in the runs where no native call fails and the microtask queue is
\* run fairly, once the context is ready every constructed sampler becomes
\* ready, and is ready only with the created handle stored; every
\* getSampler() then resolves with that handle and every delete() issues
\* gl.deleteSampler with that handle and resolves.
EventuallyReady ==
    /\ [](\A s \in Samplers :
            ready[s] = "ready" => sampler[s] \in CreatedHandles(s))
    /\ \A s \in Samplers :
          (s \in Constructed /\ ctxState = "ready") ~> ready[s] = "ready"
    /\ \A c \in CallIds :
          (c \in DOMAIN calls /\ ctxState = "ready")
              ~> /\ c \in DOMAIN calls
                 /\ calls[c].st = "resolved"
                 /\ sampler[calls[c].s] # NoHandle
                 /\ calls[c].op = "getSampler"
                       => calls[c].val = sampler[calls[c].s]
                 /\ calls[c].op = "delete"
                       => \E i \in DeleteCalls(calls[c].s) :
                             glLog[i].h = sampler[calls[c].s]

\* no native call failed, every sampler is ready, and a getSampler() and a
\* delete() that were pending have both resolved
EventuallyReadyWitness ==
    /\ Failed(glLog) = {}
    /\ \A s \in Samplers : ready[s] = "ready"
    /\ \E c, d \in DOMAIN calls :
          /\ calls[c].op = "getSampler" /\ calls[d].op = "delete"
          /\ calls[c].at = "pending" /\ calls[d].at = "pending"
          /\ calls[c].st = "resolved" /\ calls[d].st = "resolved"

\* the values the native sampler of s was given for parameter pname
NativeParam(s, pname) ==
    {glLog[i].val : i \in {j \in InitCalls(s) :
                              /\ glLog[j].pname = pname
                              /\ glLog[j].ok
                              /\ glLog[j].h = sampler[s]}}

\* the sampler parameter each configuration field is applied to
ParamOf ==
    [minFilter   |-> "TEXTURE_MIN_FILTER",
     magFilter   |-> "TEXTURE_MAG_FILTER",
     wrapS       |-> "TEXTURE_WRAP_S",
     wrapT       |-> "TEXTURE_WRAP_T",
     wrapR       |-> "TEXTURE_WRAP_R",
     minLod      |-> "TEXTURE_MIN_LOD",
     maxLod      |-> "TEXTURE_MAX_LOD",
     compareMode |-> "TEXTURE_COMPARE_MODE",
     compareFunc |-> "TEXTURE_COMPARE_FUNC"]

\* C11: once a sampler is ready, its native object has, for every field
\* given to the constructor, the given value, and for every omitted field
\* the documented default: min and mag filter linear, the three wraps
\* clamp-to-edge, min LOD -1000, max LOD 1000, compare mode none, compare
\* function less-or-equal.
DefaultConfiguration ==
    \A s \in Samplers :
        ready[s] = "ready" =>
            LET Param(f) == NativeParam(s, ParamOf[f])
                Is(f, v) == IF f \in DOMAIN props[s]
                              THEN Param(f) = {props[s][f]}
                              ELSE Param(f) = {v}
            IN /\ Is("minFilter", "linear")
               /\ Is("magFilter", "linear")
               /\ Is("wrapS", "clampToEdge")
               /\ Is("wrapT", "clampToEdge")
               /\ Is("wrapR", "clampToEdge")
               /\ Is("minLod", -1000)
               /\ Is("maxLod", 1000)
               /\ Is("compareMode", "none")
               /\ Is("compareFunc", "lessOrEqual")

\* a sampler constructed with no props and one constructed with some but
\* not all of the fields are both ready
DefaultConfigurationWitness ==
    \E s, t \in Samplers :
        /\ ready[s] = "ready" /\ ready[t] = "ready"
        /\ DOMAIN props[s] = {}
        /\ DOMAIN props[t] # {} /\ DOMAIN props[t] # Fields

SamplersIndependent ==
    /\ [](\A s, t \in Samplers :
            /\ Cardinality(CreateCalls(s)) <= 1
            /\ sampler[s] # NoHandle => sampler[s] \in CreatedHandles(s)
            /\ s # t => CreatedHandles(s) \cap CreatedHandles(t) = {}
            /\ \A i \in DeleteCalls(s) :
                  /\ glLog[i].h = sampler[s]
                  /\ s # t => glLog[i].h \notin CreatedHandles(t))
    /\ [][\A t \in Samplers :
            (ready'[t] # ready[t] \/ sampler'[t] # sampler[t]) =>
                \/ initState[t] = "none" /\ initState'[t] = "awaitContext"
                \/ /\ microtasks # <<>>
                   /\ Head(microtasks) \in {InitTask(t), SettleTask(t)}]_vars

\* the initializer of one sampler failed and a getSampler() on it was
\* rejected, while another sampler is ready, holds its handle and has been
\* deleted
SamplersIndependentWitness ==
    \E s, t \in Samplers :
        /\ s # t
        /\ NativeFailure(s) /\ ready[s] = "failed"
        /\ \E c \in CallsOn(s) : calls[c].st = "rejected"
        /\ ready[t] = "ready" /\ sampler[t] \in CreatedHandles(t)
        /\ DeleteCalls(t) # {}

\* C15: whenever the handle of an instance is set, the call stream holds,
\* for that instance, one successful gl.createSampler that returned the
\* handle, followed without a gap by exactly one successful call per
\* configuration field on that handle, samplerParameterf for the two LOD
\* bounds and samplerParameteri for the seven others, each with the value
\* captured at construction; the props are never changed afterwards.
InitializerAppliesAllParameters ==
    /\ [](\A s \in Samplers :
            sampler[s] # NoHandle =>
                LET mine == InitCalls(s)
                    first == CHOOSE i \in mine : \A j \in mine : i <= j
                    cfg == WithDefaults(props[s])
                IN /\ Cardinality(mine) = 1 + Cardinality(Fields)
                   /\ \A i \in mine :
                         /\ glLog[i].ok
                         /\ glLog[i].h = sampler[s]
                         /\ i < first + Cardinality(mine)
                   /\ glLog[first].fn = "createSampler"
                   /\ \A f \in Fields :
                         \E i \in mine :
                            /\ glLog[i].pname = ParamOf[f]
                            /\ glLog[i].val = cfg[f]
                            /\ glLog[i].fn = IF f \in {"minLod", "maxLod"}
                                               THEN "samplerParameterf"
                                               ELSE "samplerParameteri"
                            /\ \A j \in mine :
                                 glLog[j].pname = ParamOf[f] => j = i)
    /\ [][\A s \in Samplers : initState[s] # "none" => props'[s] = props[s]]_vars

\* a sampler constructed with some fields given holds its handle while its
\* readiness is still pending, after another sampler has been initialized
InitializerAppliesAllParametersWitness ==
    \E s, t \in Samplers :
        /\ s # t
        /\ sampler[s] # NoHandle /\ ready[s] = "pending"
        /\ DOMAIN props[s] # {}
        /\ sampler[t] # NoHandle

\* C16: a step of a getSampler() call, its invocation or its resumption,
\* issues no native call and leaves every handle and every readiness
\* unchanged; every getSampler() resolved on a sampler returns the handle
\* the sampler still holds.
GetSamplerReadOnly ==
    /\ [](\A c \in DOMAIN calls :
            (calls[c].op = "getSampler" /\ calls[c].st = "resolved") =>
                /\ calls[c].val = sampler[calls[c].s]
                /\ ready[calls[c].s] = "ready")
    /\ [][\A c \in DOMAIN calls' :
            (/\ calls'[c].op = "getSampler"
             /\ c \in DOMAIN calls => calls'[c] # calls[c]) =>
                /\ glLog' = glLog
                /\ sampler' = sampler
                /\ ready' = ready
                /\ nextHandle' = nextHandle]_vars

\* two getSampler() calls made on a sampler that was already ready have
\* both returned its handle
GetSamplerReadOnlyWitness ==
    \E c, d \in DOMAIN calls :
        /\ c # d /\ calls[c].s = calls[d].s
        /\ calls[c].op = "getSampler" /\ calls[d].op = "getSampler"
        /\ calls[c].at = "ready" /\ calls[d].at = "ready"
        /\ calls[c].st = "resolved" /\ calls[d].st = "resolved"
        /\ calls[c].val = calls[d].val /\ calls[c].val # NoHandle

\* C17: a step that issues gl.deleteSampler leaves every handle and every
\* readiness unchanged; a sampler that has been deleted is still ready and
\* still holds the deleted handle, so a getSampler() resolved after the
\* deletion returns it; every resolved delete() has issued its own
\* gl.deleteSampler on that handle, a second delete() a second one.
DeleteChangesNothing ==
    /\ [](\A s \in Samplers :
            /\ \A i \in DeleteCalls(s) :
                  /\ ready[s] = "ready"
                  /\ sampler[s] = glLog[i].h
                  /\ sampler[s] # NoHandle
            /\ Cardinality(DeleteCalls(s)) =
                  Cardinality({c \in CallsOn(s) : /\ calls[c].op = "delete"
                                                  /\ calls[c].st = "resolved"})
            /\ \A c \in CallsOn(s) :
                  (calls[c].op = "getSampler" /\ calls[c].st = "resolved")
                      => calls[c].val = sampler[s])
    /\ [][Len(glLog') > Len(glLog) /\ glLog'[Len(glLog')].fn = "deleteSampler"
            => sampler' = sampler /\ ready' = ready]_vars

\* a delete() made on a ready sampler has released the handle, and a
\* getSampler() made after it, resumed after it, has returned that handle
DeleteChangesNothingWitness ==
    \E c, d \in DOMAIN calls :
        /\ c < d /\ calls[c].s = calls[d].s
        /\ calls[c].op = "delete" /\ calls[d].op = "getSampler"
        /\ calls[c].at = "ready" /\ calls[d].at = "ready"
        /\ calls[c].st = "resolved" /\ calls[d].st = "resolved"
        /\ \E i \in DeleteCalls(calls[c].s) : glLog[i].h = calls[d].val

\* C18: when a parameter-set call has failed after gl.createSampler
\* succeeded, the instance's handle is unset, no getSampler() on it has
\* resolved, and the call stream holds no gl.deleteSampler for the native
\* sampler that was created.
PartialSamplerNeverReleased ==
    \A s \in Samplers :
        (\E i \in InitCalls(s) : ~glLog[i].ok /\ glLog[i].fn # "createSampler")
            => /\ CreatedHandles(s) # {}
               /\ sampler[s] = NoHandle
               /\ DeleteCalls(s) = {}
               /\ \A i \in DOMAIN glLog :
                     glLog[i].fn = "deleteSampler"
                         => glLog[i].h \notin CreatedHandles(s)
               /\ \A c \in CallsOn(s) : calls[c].st # "resolved"

\* the last parameter-set call failed on a created sampler, and a delete()
\* made after the readiness had failed was rejected
PartialSamplerNeverReleasedWitness ==
    \E s \in Samplers :
        /\ \E i \in InitCalls(s) :
              ~glLog[i].ok /\ glLog[i].pname = "TEXTURE_COMPARE_FUNC"
        /\ CreatedHandles(s) # {}
        /\ \E c \in CallsOn(s) :
              /\ calls[c].op = "delete" /\ calls[c].at = "failed"
              /\ calls[c].st = "rejected"

\* the calls made on one sampler while its readiness was pending, a
\* getSampler() c and then a delete() d
PendingPair(c, d) ==
    /\ c \in DOMAIN calls /\ d \in DOMAIN calls
    /\ c < d /\ calls[c].s = calls[d].s
    /\ calls[c].op = "getSampler" /\ calls[d].op = "delete"
    /\ calls[c].at = "pending" /\ calls[d].at = "pending"

\* C19, as stated: when the caller of a getSampler() made while pending
\* resumes with the handle, the gl.deleteSampler of a delete() made after
\* it while pending has not been issued.
CallerReceivesBeforeDelete ==
    [][\A c, d \in CallIds :
          (/\ PendingPair(c, d)
           /\ calls[c].st = "resolved"
           /\ ~calls[c].got /\ calls'[c].got)
              => calls[d].st # "resolved"]_vars

\* C19, amended: the promise getSampler() returned is fulfilled with the
\* stored handle while the later delete() has not resumed, so before its
\* gl.deleteSampler is issued, but the continuation of the caller of
\* getSampler() runs only after that gl.deleteSampler has been issued on
\* the handle it receives.
PromiseFulfilledBeforeDelete ==
    [][\A c, d \in CallIds :
          PendingPair(c, d) =>
              /\ (calls[c].st # "resolved" /\ calls'[c].st = "resolved")
                    => /\ calls[d].st \notin {"resolved", "rejected"}
                       /\ calls'[c].val = sampler[calls[c].s]
              /\ (calls[c].st = "resolved" /\ ~calls[c].got /\ calls'[c].got)
                    => /\ calls[d].st = "resolved"
                       /\ \E i \in DeleteCalls(calls[c].s) :
                             glLog[i].h = calls[c].val]_vars

\* the caller of a getSampler() made while pending has resumed with a
\* handle that the delete() made after it has already released
PromiseFulfilledBeforeDeleteWitness ==
    \E c, d \in CallIds :
        /\ PendingPair(c, d)
        /\ calls[c].got /\ calls[c].st = "resolved"
        /\ calls[c].val # NoHandle
        /\ \E i \in DeleteCalls(calls[c].s) : glLog[i].h = calls[c].val

====
